---- MODULE Spec2Model ----
(***************************************************************************)
(* Inventory & sales tracker (src/app.py): a Flask application over one    *)
(* SQLite database with two tables, products and sales.                    *)
(*                                                                         *)
(* Spec      request handlers run one after another; every storage call    *)
(*           of a handler may fail.                                        *)
(* SpecConc  two request handlers (sales and watchlist toggles) run        *)
(*           statement by statement under SQLite's file locking.           *)
(*                                                                         *)
(* Strings that the code inspects character by character (file names,      *)
(* image references) are sequences of one-character strings.  Prices are   *)
(* the REAL column counted in hundredths.                                  *)
(***************************************************************************)
EXTENDS Integers, Sequences, FiniteSets, TLC

\* ------------------------------------------------------------------ bounds
MaxId == 3        \* largest rowid the products table hands out in the model
MaxSales == 1     \* largest number of rows in the sales table

\* ------------------------------------------------------- program constants
LOW_STOCK_THRESHOLD == 10

ALLOWED_EXTENSIONS ==
  { <<"p","n","g">>, <<"j","p","g">>, <<"j","p","e","g">>, <<"g","i","f">> }

\* ------------------------------------------------------------ form values
\* request.form.get(key): absent key (None), empty string, a decimal integer
\* literal, the literal "nan", or any other text.
Missing == [kind |-> "missing", val |-> 0]
Empty   == [kind |-> "empty",   val |-> 0]
Junk    == [kind |-> "junk",    val |-> 0]
NaN     == [kind |-> "nan",     val |-> 0]
Num(n)  == [kind |-> "int",     val |-> n]

\* Python truthiness of a form value: None and '' are falsy.
Truthy(v) == v.kind \notin {"missing", "empty"}

\* int(v) raises ValueError/TypeError unless v is an integer literal.
IntRaises(v) == v.kind # "int"
\* float(v) raises unless v is a number literal; float('nan') is accepted.
FloatRaises(v) == v.kind \notin {"int", "nan"}

\* ------------------------------------------------------------ file names
Lower(c) ==
  CASE c = "P" -> "p" [] c = "N" -> "n" [] c = "G" -> "g" [] OTHER -> c

lower(s) == [i \in 1..Len(s) |-> Lower(s[i])]

HasDot(s) == \E i \in 1..Len(s) : s[i] = "."

LastDot(s) == CHOOSE i \in 1..Len(s) :
                 s[i] = "." /\ \A j \in (i+1)..Len(s) : s[j] # "."

\* filename.rsplit('.', 1)[1]
Extension(s) == SubSeq(s, LastDot(s) + 1, Len(s))

allowed_file(filename) ==
  HasDot(filename) /\ lower(Extension(filename)) \in ALLOWED_EXTENSIONS

\* werkzeug's secure_filename on names made of letters and dots: leading and
\* trailing dots are stripped.
RECURSIVE StripDots(_)
StripDots(s) ==
  IF s = <<>> THEN s
  ELSE IF Head(s) = "." THEN StripDots(Tail(s))
  ELSE IF s[Len(s)] = "." THEN StripDots(SubSeq(s, 1, Len(s) - 1))
  ELSE s

secure_filename(s) == StripDots(s)

\* ------------------------------------------------------------------ state
VARIABLES
  products,   \* table products: rowid -> row
  sales,      \* table sales, in rowid order
  orphaned,   \* history: ids of sales rows whose product was deleted later
  last,       \* the response of the latest request (Spec)
  pc,         \* SpecConc: position of each handler
  req,        \* SpecConc: the request each handler serves
  cur,        \* SpecConc: the value each handler read
  lock,       \* SpecConc: SQLite file lock held by each connection
  resp,       \* SpecConc: the response of each handler's latest request
  sold        \* SpecConc history: units of sales reported successful, per id

dbvars   == <<products, sales, orphaned>>
concvars == <<pc, req, cur, lock, resp, sold>>
vars     == <<products, sales, orphaned, last, pc, req, cur, lock, resp, sold>>

Procs == {1, 2}

Row(name, price, stock, threshold, image, watched) ==
  [name |-> name, price |-> price, stock |-> stock,
   low_stock_threshold |-> threshold, image_url |-> image,
   is_watched |-> watched]

\* init_db on a fresh database file.
SeedProducts ==
  (1 :> Row("Shampoo", 1500, 200, 20,
            <<"s","h","a","m","p","o","o",".","p","n","g">>, 0))
  @@ (2 :> Row("Water Bottle", 500, 500, 20,
            <<"w","a","t","e","r","_","b","o","t","t","l","e",".","p","n","g">>, 1))
  @@ (3 :> Row("Energy Bar", 250, 80, 5,
            <<"e","n","e","r","g","y","_","b","a","r",".","p","n","g">>, 0))

\* What a request answers: the flash message or JSON body, by kind, with the
\* values it carries.
Response(op, result) ==
  [op |-> op, result |-> result, name |-> "", units |-> 0, pid |-> 0,
   current_status |-> -1, new_status |-> -1]

NoRequest == [op |-> "none", pid |-> 0, quantity |-> 0, sale_date |-> ""]

init_db ==
  /\ products = SeedProducts
  /\ sales = <<>>
  /\ orphaned = {}
  /\ last = Response("init_db", "ok")
  /\ pc = [p \in Procs |-> "idle"]
  /\ req = [p \in Procs |-> NoRequest]
  /\ cur = [p \in Procs |-> 0]
  /\ lock = [p \in Procs |-> "NONE"]
  /\ resp = [p \in Procs |-> Response("none", "none")]
  /\ sold = [i \in DOMAIN SeedProducts |-> 0]

Init == init_db

\* ---------------------------------------------------------- SQL helpers
Max(S) == CHOOSE x \in S : \A y \in S : y <= x

\* INTEGER PRIMARY KEY without AUTOINCREMENT: one more than the largest
\* rowid now in the table, 1 for an empty table.
NextRowId(ids) == IF ids = {} THEN 1 ELSE Max(ids) + 1

SaleIds == {sales[i].id : i \in 1..Len(sales)}

\* The name column without its UNIQUE constraint.
NoUniqueConstraint(name) == FALSE

\* name TEXT NOT NULL UNIQUE, BINARY collation.
NameTaken(name) == \E i \in DOMAIN products : products[i].name = name

\* WHERE id = ? with a bound text parameter: matches when the text is the
\* decimal literal of an existing rowid.
FindProduct(pidIn) == pidIn.kind = "int" /\ pidIn.val \in DOMAIN products

RECURSIVE SumOver(_, _)
SumOver(S, f) ==
  IF S = {} THEN 0
  ELSE LET x == CHOOSE y \in S : TRUE IN f[x] + SumOver(S \ {x}, f)

\* SELECT SUM(stock * price) FROM products, "or 0.0"
total_value ==
  SumOver(DOMAIN products,
          [i \in DOMAIN products |-> products[i].stock * products[i].price])

\* SELECT * FROM products ORDER BY stock ASC: any order of the rows with
\* ascending stock (SQL leaves the order of ties open).
ProductListings ==
  { s \in [1..Cardinality(DOMAIN products) -> DOMAIN products] :
      /\ \A i, j \in DOMAIN s : i # j => s[i] # s[j]
      /\ \A i, j \in DOMAIN s :
           i < j => products[s[i]].stock <= products[s[j]].stock }

\* sales s JOIN products p ON s.product_id = p.id
Joined == {i \in 1..Len(sales) : sales[i].product_id \in DOMAIN products}

\* SELECT COUNT(id) FROM sales
total_orders == Cardinality(SaleIds)

\* SELECT SUM(s.quantity * p.price) over the join, "or 0.0"
total_revenue ==
  SumOver(Joined,
          [i \in Joined |-> sales[i].quantity * products[sales[i].product_id].price])

\* SUM(s.quantity) ... GROUP BY p.name
units_sold(name) ==
  LET G == {i \in Joined : products[sales[i].product_id].name = name}
  IN SumOver(G, [i \in G |-> sales[i].quantity])

JoinedNames == {products[sales[i].product_id].name : i \in Joined}

\* ORDER BY units_sold DESC LIMIT 5: a group is listed only if fewer than
\* five groups sold strictly more.
top_products ==
  { [name |-> n, units_sold |-> units_sold(n)] : n \in
      { m \in JoinedNames :
          Cardinality({k \in JoinedNames : units_sold(k) > units_sold(m)}) < 5 } }


\* ------------------------------------------------------------ input sets
\* Requests address the last seeded row and the rowids after it; the other
\* seeded rows stay as init_db wrote them.
Ids == Cardinality(DOMAIN SeedProducts)..MaxId

Dates == {"2024-01-01 10:00:00", "2024-01-01 10:00:01"}

PidInputs == {Missing, Junk} \cup {Num(i) : i \in Ids}

QtyInputs == {Missing, Junk, Num(-1), Num(0), Num(80), Num(600)}

NoName == [present |-> FALSE, text |-> ""]
Name(t) == [present |-> TRUE, text |-> t]
NameInputs == {NoName, Name(""), Name("Shampoo"), Name("shampoo"), Name("Energy Bar")}

PriceInputs == {Empty, Junk, NaN, Num(0), Num(200)}
StockInputs == {Junk, Num(-1), Num(80)}
ThresholdInputs == {Empty, Junk, Num(0)}

NoFile == [present |-> FALSE, filename |-> <<>>]
File(f) == [present |-> TRUE, filename |-> f]
FileInputs ==
  {NoFile, File(<<>>), File(<<".","P","N","G">>),
   File(<<"a",".","e","x","e">>), File(<<"p","n","g">>)}

Methods == {"GET", "POST"}

\* A form that passes every check of add_product, and the forms that differ
\* from it in one field.
BaseForm ==
  [method |-> "POST", name |-> Name("shampoo"), price |-> Num(200),
   stock |-> Num(80), threshold |-> Empty, online |-> <<>>, file |-> NoFile]

AddForms ==
  {[BaseForm EXCEPT !.method = m] : m \in Methods}
  \cup {[BaseForm EXCEPT !.name = n] : n \in NameInputs}
  \cup {[BaseForm EXCEPT !.price = v] : v \in PriceInputs}
  \cup {[BaseForm EXCEPT !.stock = v] : v \in StockInputs}
  \cup {[BaseForm EXCEPT !.threshold = v] : v \in ThresholdInputs}
  \cup {[BaseForm EXCEPT !.file = f] : f \in FileInputs}

\* Which storage call of the handler raises, if it is reached.
IndexFaults  == {"none", "connect", "select"}
AddFaults    == {"none", "connect", "insert", "commit"}
DeleteFaults == {"none", "connect", "delete", "commit"}
ToggleFaults == {"none", "connect", "select", "update", "commit"}
SaleFaults   == {"none", "connect", "begin", "select", "update", "insert",
                 "commit", "rollback"}

\* Storage failures are tried on the forms that reach the INSERT.
AddRequests ==
  {<<form, "none">> : form \in AddForms}
  \cup {<<[BaseForm EXCEPT !.name = n], f>> :
          n \in {Name("shampoo"), Name("Shampoo")}, f \in AddFaults}

\* A failing call inside the sale's transaction may or may not have ended
\* the transaction by itself (SQLite rolls back on its own on some errors).
SaleFaultCases ==
  {<<f, FALSE>> : f \in SaleFaults}
  \cup {<<f, TRUE>> : f \in {"select", "update", "insert", "commit", "rollback"}}

\* Storage failures are tried on the requests that reach a storage call:
\* a quantity that parses, for each numeric product id.
SaleRequests ==
  {<<pidIn, qIn, "none", FALSE>> : pidIn \in PidInputs, qIn \in QtyInputs}
  \cup {<<Num(i), Num(80), fc[1], fc[2]>> : i \in Ids, fc \in SaleFaultCases}
  \cup {<<Num(i), Num(600), "rollback", a>> : i \in Ids, a \in BOOLEAN}

\* ------------------------------------------------------------- index
\* What index hands to its template, for each listing order storage may
\* return.
IndexContexts ==
  {[products |-> listing, low_stock_limit |-> LOW_STOCK_THRESHOLD,
    total_value |-> total_value] : listing \in ProductListings}

\* No storage call of index is inside a try block.
index(fault) ==
  /\ last' = Response("index", IF fault = "none" THEN "ok" ELSE "uncaught")
  /\ UNCHANGED dbvars
  /\ UNCHANGED concvars

\* --------------------------------------------------------- add_product
\* price <= 0 on the parsed price; NaN compares false.
PriceNotPositive(v) ==
  IF ~Truthy(v) THEN TRUE ELSE IF v.kind = "nan" THEN FALSE ELSE v.val <= 0

ParsedStock(v) == IF Truthy(v) THEN v.val ELSE 0

ParsedThreshold(v) == IF Truthy(v) THEN v.val ELSE 1

ParseRaises(priceIn, stockIn, thresholdIn) ==
  \/ Truthy(priceIn) /\ FloatRaises(priceIn)
  \/ Truthy(stockIn) /\ IntRaises(stockIn)
  \/ Truthy(thresholdIn) /\ IntRaises(thresholdIn)

FileRejected(file) ==
  file.present /\ file.filename # <<>> /\ ~allowed_file(file.filename)

ImageUrl(online, file) ==
  IF file.present /\ file.filename # <<>> /\ allowed_file(file.filename)
  THEN secure_filename(file.filename)
  ELSE online

InvalidFields(name, priceIn, stockIn, thresholdIn) ==
  \/ ~name.present
  \/ name.text = ""
  \/ PriceNotPositive(priceIn)
  \/ ParsedStock(stockIn) < 0
  \/ ParsedThreshold(thresholdIn) <= 0

\* sqlite3.IntegrityError on the INSERT: the UNIQUE constraint on name, or
\* the NOT NULL constraint on price (SQLite stores NaN as NULL).
IntegrityError(name, priceIn) == NameTaken(name.text) \/ priceIn.kind = "nan"

\* The row the INSERT writes; is_watched takes the column default.
NewProduct(name, priceIn, stockIn, thresholdIn, image) ==
  Row(name.text, priceIn.val, ParsedStock(stockIn),
      ParsedThreshold(thresholdIn), image, 0)

AddResult(method, name, priceIn, stockIn, thresholdIn, file, fault) ==
  IF method = "GET" THEN "form"
  ELSE IF ParseRaises(priceIn, stockIn, thresholdIn) THEN "not_numbers"
  ELSE IF FileRejected(file) THEN "bad_file_type"
  ELSE IF InvalidFields(name, priceIn, stockIn, thresholdIn) THEN "invalid_fields"
  ELSE IF fault = "connect" THEN "uncaught"
  ELSE IF fault = "insert" THEN "uncaught"
  ELSE IF IntegrityError(name, priceIn) THEN "duplicate"
  ELSE IF fault = "commit" THEN "uncaught"
  ELSE "added"

add_product(method, name, priceIn, stockIn, thresholdIn, online, file, fault) ==
  LET result == AddResult(method, name, priceIn, stockIn, thresholdIn, file, fault)
      id == NextRowId(DOMAIN products)
  IN /\ result = "added" => id <= MaxId
     /\ last' = [Response("add_product", result) EXCEPT
                   !.name = IF result \in {"added", "duplicate"}
                            THEN name.text ELSE ""]
     /\ products' =
          IF result = "added"
          THEN products @@
               (id :> NewProduct(name, priceIn, stockIn, thresholdIn,
                                 ImageUrl(online, file)))
          ELSE products
     /\ UNCHANGED <<sales, orphaned>>
     /\ UNCHANGED concvars

\* ------------------------------------------------------ delete_product
\* The delete cascading to the sales of the product.
CascadingDelete(product_id) ==
  SelectSeq(sales, LAMBDA s : s.product_id # product_id)

\* DELETE FROM products WHERE id = ?; foreign keys are not enforced, the
\* sales table is not touched.
SalesAfterDelete(product_id) == sales

ProductsAfterDelete(product_id) ==
  [i \in DOMAIN products \ {product_id} |-> products[i]]

delete_product(product_id, fault) ==
  /\ last' = Response("delete_product",
                      IF fault = "none" THEN "deleted" ELSE "uncaught")
  /\ IF fault = "none"
     THEN /\ products' = ProductsAfterDelete(product_id)
          /\ sales' = SalesAfterDelete(product_id)
          /\ orphaned' = orphaned \cup
               {sales[i].id : i \in {j \in 1..Len(sales) :
                                       sales[j].product_id = product_id}}
     ELSE UNCHANGED dbvars
  /\ UNCHANGED concvars

\* -------------------------------------------------------- process_sale
\* The stock check of line 180 left out.
NoStockCheck(current_stock, quantity) == FALSE

\* line 180
InsufficientStock(current_stock, quantity) == current_stock < quantity

\* line 186
new_stock(current_stock, quantity) == current_stock - quantity

\* The sales row of line 191; the rowid is assigned by storage, the
\* INTEGER column stores the numeric value of the bound text.
NewSale(pidIn, quantity, sale_date) ==
  [id |-> NextRowId(SaleIds), product_id |-> pidIn.val,
   quantity |-> quantity, sale_date |-> sale_date]

\* The except block of line 198: its ROLLBACK raises in turn when the
\* failure has already ended the transaction.
Handler(autorb) == IF autorb THEN "uncaught" ELSE "error"

SaleResult(pidIn, qIn, fault, autorb) ==
  IF IntRaises(qIn) THEN "invalid_quantity"
  ELSE IF qIn.val <= 0 THEN "not_positive"
  ELSE IF fault = "connect" THEN "uncaught"
  ELSE IF fault = "begin" THEN "uncaught"
  ELSE IF fault = "select" THEN Handler(autorb)
  ELSE IF ~FindProduct(pidIn)
       THEN (IF fault = "rollback" THEN Handler(autorb) ELSE "not_found")
  ELSE IF InsufficientStock(products[pidIn.val].stock, qIn.val)
       THEN (IF fault = "rollback" THEN Handler(autorb) ELSE "insufficient")
  ELSE IF fault \in {"update", "insert", "commit"} THEN Handler(autorb)
  ELSE "success"

\* The statement at which the transaction stops.
SaleStops(pidIn, qIn, fault) ==
  IF IntRaises(qIn) \/ qIn.val <= 0 THEN "parse"
  ELSE IF fault \in {"connect", "begin", "select"} THEN fault
  ELSE IF ~FindProduct(pidIn) THEN "select"
  ELSE IF InsufficientStock(products[pidIn.val].stock, qIn.val) THEN "select"
  ELSE IF fault \in {"update", "insert", "commit"} THEN fault
  ELSE "done"

\* The connection's view of the tables after the statements that ran.
SaleProducts(pidIn, qIn, stops) ==
  IF stops \in {"insert", "commit", "done"}
  THEN [products EXCEPT ![pidIn.val].stock = new_stock(@, qIn.val)]
  ELSE products

SaleSales(pidIn, qIn, sale_date, stops) ==
  IF stops \in {"commit", "done"}
  THEN Append(sales, NewSale(pidIn, qIn.val, sale_date))
  ELSE sales

\* No rollback: the writes made before a failing statement stay.
WritesSurviveFailure(stops) == stops \in {"insert", "commit", "done"}

\* Only a transaction that reached its COMMIT keeps its writes; every other
\* path ends in ROLLBACK or in closing the connection.
Committed(stops) == stops = "done"

process_sale(pidIn, qIn, fault, autorb) ==
  LET result == SaleResult(pidIn, qIn, fault, autorb)
      stops == SaleStops(pidIn, qIn, fault)
  IN /\ Committed(stops) => Len(sales) < MaxSales
     /\ last' = [Response("process_sale", result) EXCEPT
                   !.pid = IF result = "success" THEN pidIn.val ELSE 0,
                   !.units = IF result = "success" THEN qIn.val
                             ELSE IF result = "insufficient"
                             THEN products[pidIn.val].stock ELSE 0]
     /\ IF Committed(stops)
        THEN \E sale_date \in Dates :
               /\ products' = SaleProducts(pidIn, qIn, stops)
               /\ sales' = SaleSales(pidIn, qIn, sale_date, stops)
        ELSE UNCHANGED <<products, sales>>
     /\ UNCHANGED orphaned
     /\ UNCHANGED concvars

\* ---------------------------------------------------- toggle_watchlist
\* The flag set instead of flipped.
AlwaysWatched(is_watched) == 1

\* line 217
new_status(is_watched) == IF is_watched = 0 THEN 1 ELSE 0

ToggleResult(product_id, fault) ==
  IF fault = "connect" THEN "uncaught"
  ELSE IF fault = "select" THEN "error500"
  ELSE IF product_id \notin DOMAIN products THEN "not_found"
  ELSE IF fault \in {"update", "commit"} THEN "error500"
  ELSE "ok"

toggle_watchlist(product_id, fault) ==
  LET result == ToggleResult(product_id, fault)
  IN /\ IF result = "ok"
        THEN /\ last' = [Response("toggle_watchlist", result) EXCEPT
                           !.pid = product_id,
                           !.current_status = products[product_id].is_watched,
                           !.new_status = new_status(products[product_id].is_watched)]
             /\ products' = [products EXCEPT ![product_id].is_watched =
                               new_status(@)]
        ELSE /\ last' = [Response("toggle_watchlist", result) EXCEPT
                           !.pid = product_id]
             /\ UNCHANGED products
     /\ UNCHANGED <<sales, orphaned>>
     /\ UNCHANGED concvars

\* ------------------------------------------------------- visualization
\* What visualization hands to its template.
VisualizationContext ==
  [total_value |-> total_value, top_products |-> top_products,
   total_orders |-> total_orders, total_revenue |-> total_revenue]

\* No storage call of visualization is inside a try block.
visualization(fault) ==
  /\ last' = Response("visualization", IF fault = "none" THEN "ok" ELSE "uncaught")
  /\ UNCHANGED dbvars
  /\ UNCHANGED concvars

\* ----------------------------------------------------------------- Spec
Next ==
  \/ \E fault \in IndexFaults : index(fault)
  \/ \E r \in AddRequests :
        add_product(r[1].method, r[1].name, r[1].price, r[1].stock,
                    r[1].threshold, r[1].online, r[1].file, r[2])
  \/ \E product_id \in Ids, fault \in DeleteFaults :
        delete_product(product_id, fault)
  \/ \E r \in SaleRequests : process_sale(r[1], r[2], r[3], r[4])
  \/ \E product_id \in Ids, fault \in ToggleFaults :
        toggle_watchlist(product_id, fault)
  \/ \E fault \in IndexFaults : visualization(fault)

Spec == Init /\ [][Next]_vars

\* =================================================================
\* SpecConc: handlers running statement by statement, each on its own
\* connection to the one database file (rollback-journal locking).
\* =================================================================
\* The last seeded row and a rowid that is not in the table.
ConcIds == {Cardinality(DOMAIN SeedProducts), Cardinality(DOMAIN SeedProducts) + 1}

ConcQtys == {30, 50}

Others(p) == Procs \ {p}

\* A SHARED lock is refused while another connection is PENDING or EXCLUSIVE.
CanShare(p) == \A q \in Others(p) : lock[q] \notin {"PENDING", "EXCLUSIVE"}

\* A RESERVED lock is refused while another connection holds one or more.
CanReserve(p) ==
  \A q \in Others(p) : lock[q] \notin {"RESERVED", "PENDING", "EXCLUSIVE"}

\* The EXCLUSIVE lock of a commit needs every other connection unlocked.
CanCommit(p) == \A q \in Others(p) : lock[q] = "NONE"

\* The read lock dropped after the SELECT, as without line 168.
ReadLockDropped == "NONE"

\* Line 168: inside BEGIN TRANSACTION the SELECT's lock is kept until the
\* transaction ends.
LockAfterSaleSelect == "SHARED"

\* The handler returns: its response is out, its connection is closed (which
\* ends any transaction and drops its lock), its locals are gone.
Answer(p, r) ==
  /\ resp' = [resp EXCEPT ![p] = r]
  /\ pc' = [pc EXCEPT ![p] = "idle"]
  /\ lock' = [lock EXCEPT ![p] = "NONE"]
  /\ req' = [req EXCEPT ![p] = NoRequest]
  /\ cur' = [cur EXCEPT ![p] = 0]

\* Lines 155-168: the quantity parses and is positive, the connection opens,
\* BEGIN TRANSACTION takes no lock.
SaleBegin(p) ==
  /\ pc[p] = "idle"
  /\ \E product_id \in ConcIds, quantity \in ConcQtys :
       req' = [req EXCEPT ![p] = [op |-> "process_sale", pid |-> product_id,
                                  quantity |-> quantity, sale_date |-> ""]]
  /\ pc' = [pc EXCEPT ![p] = "sale_select"]
  /\ UNCHANGED <<dbvars, last, cur, lock, resp, sold>>

\* Lines 171-183: the SELECT, and the two checks on its result.
SaleSelect(p) ==
  /\ pc[p] = "sale_select"
  /\ CanShare(p)
  /\ IF req[p].pid \notin DOMAIN products
     THEN Answer(p, Response("process_sale", "not_found"))
     ELSE IF InsufficientStock(products[req[p].pid].stock, req[p].quantity)
     THEN Answer(p, [Response("process_sale", "insufficient") EXCEPT
                       !.units = products[req[p].pid].stock])
     ELSE /\ cur' = [cur EXCEPT ![p] = products[req[p].pid].stock]
          /\ lock' = [lock EXCEPT ![p] = LockAfterSaleSelect]
          /\ pc' = [pc EXCEPT ![p] = "sale_update"]
          /\ UNCHANGED <<req, resp>>
  /\ UNCHANGED <<dbvars, last, sold>>

\* The SELECT waits for the lock until the connection's busy timeout, then
\* raises; the except block rolls back.
SaleSelectTimeout(p) ==
  /\ pc[p] = "sale_select"
  /\ ~CanShare(p)
  /\ Answer(p, Response("process_sale", "error"))
  /\ UNCHANGED <<dbvars, last, sold>>

\* Line 187: the UPDATE needs the RESERVED lock; a connection that already
\* read in its transaction is refused at once when another writer holds it.
SaleUpdate(p) ==
  /\ pc[p] = "sale_update"
  /\ IF CanReserve(p)
     THEN /\ lock' = [lock EXCEPT ![p] = "RESERVED"]
          /\ pc' = [pc EXCEPT ![p] = "sale_insert"]
          /\ UNCHANGED <<req, cur, resp>>
     ELSE Answer(p, Response("process_sale", "error"))
  /\ UNCHANGED <<dbvars, last, sold>>

\* Lines 190-192: the clock reading and the INSERT, in the connection's
\* own uncommitted view.
SaleInsert(p) ==
  /\ pc[p] = "sale_insert"
  /\ \E sale_date \in Dates :
       req' = [req EXCEPT ![p].sale_date = sale_date]
  /\ pc' = [pc EXCEPT ![p] = "sale_commit"]
  /\ UNCHANGED <<dbvars, last, cur, lock, resp, sold>>

\* Line 195: the commit takes PENDING, then EXCLUSIVE once no other
\* connection holds a lock, and writes the stock of line 186 and the row.
SaleCommit(p) ==
  /\ pc[p] = "sale_commit"
  /\ IF CanCommit(p)
     THEN /\ products' = [products EXCEPT ![req[p].pid].stock =
                            new_stock(cur[p], req[p].quantity)]
          /\ sales' = Append(sales,
                             [id |-> NextRowId(SaleIds), product_id |-> req[p].pid,
                              quantity |-> req[p].quantity,
                              sale_date |-> req[p].sale_date])
          /\ sold' = [sold EXCEPT ![req[p].pid] = @ + req[p].quantity]
          /\ Answer(p, [Response("process_sale", "success") EXCEPT
                          !.pid = req[p].pid, !.units = req[p].quantity])
     ELSE /\ lock' = [lock EXCEPT ![p] = "PENDING"]
          /\ UNCHANGED <<products, sales, sold, pc, req, cur, resp>>
  /\ UNCHANGED <<orphaned, last>>

\* The commit gives up at the busy timeout; the except block rolls back.
SaleCommitTimeout(p) ==
  /\ pc[p] = "sale_commit"
  /\ lock[p] = "PENDING"
  /\ Answer(p, Response("process_sale", "error"))
  /\ UNCHANGED <<dbvars, last, sold>>

\* Line 210: the connection opens.
ToggleBegin(p) ==
  /\ pc[p] = "idle"
  /\ \E product_id \in ConcIds :
       req' = [req EXCEPT ![p] = [op |-> "toggle_watchlist", pid |-> product_id,
                                  quantity |-> 0, sale_date |-> ""]]
  /\ pc' = [pc EXCEPT ![p] = "toggle_select"]
  /\ UNCHANGED <<dbvars, last, cur, lock, resp, sold>>

\* Lines 212-217: the SELECT runs outside any transaction, its lock is gone
\* when the row has been fetched.
ToggleSelect(p) ==
  /\ pc[p] = "toggle_select"
  /\ CanShare(p)
  /\ IF req[p].pid \notin DOMAIN products
     THEN Answer(p, [Response("toggle_watchlist", "not_found") EXCEPT
                       !.pid = req[p].pid])
     ELSE /\ cur' = [cur EXCEPT ![p] = products[req[p].pid].is_watched]
          /\ pc' = [pc EXCEPT ![p] = "toggle_update"]
          /\ UNCHANGED <<lock, req, resp>>
  /\ UNCHANGED <<dbvars, last, sold>>

ToggleSelectTimeout(p) ==
  /\ pc[p] = "toggle_select"
  /\ ~CanShare(p)
  /\ Answer(p, [Response("toggle_watchlist", "error500") EXCEPT !.pid = req[p].pid])
  /\ UNCHANGED <<dbvars, last, sold>>

\* Line 219: the UPDATE opens an implicit transaction and takes RESERVED.
ToggleUpdate(p) ==
  /\ pc[p] = "toggle_update"
  /\ CanReserve(p)
  /\ lock' = [lock EXCEPT ![p] = "RESERVED"]
  /\ pc' = [pc EXCEPT ![p] = "toggle_commit"]
  /\ UNCHANGED <<dbvars, last, req, cur, resp, sold>>

ToggleUpdateTimeout(p) ==
  /\ pc[p] = "toggle_update"
  /\ ~CanReserve(p)
  /\ Answer(p, [Response("toggle_watchlist", "error500") EXCEPT !.pid = req[p].pid])
  /\ UNCHANGED <<dbvars, last, sold>>

\* Lines 220-222: the commit writes the value computed at line 217 from the
\* earlier read.
ToggleCommit(p) ==
  /\ pc[p] = "toggle_commit"
  /\ IF CanCommit(p)
     THEN /\ products' = [products EXCEPT ![req[p].pid].is_watched =
                            new_status(cur[p])]
          /\ Answer(p, [Response("toggle_watchlist", "ok") EXCEPT
                          !.pid = req[p].pid, !.current_status = cur[p],
                          !.new_status = new_status(cur[p])])
     ELSE /\ lock' = [lock EXCEPT ![p] = "PENDING"]
          /\ UNCHANGED <<products, pc, req, cur, resp>>
  /\ UNCHANGED <<sales, orphaned, last, sold>>

ToggleCommitTimeout(p) ==
  /\ pc[p] = "toggle_commit"
  /\ lock[p] = "PENDING"
  /\ Answer(p, [Response("toggle_watchlist", "error500") EXCEPT !.pid = req[p].pid])
  /\ UNCHANGED <<dbvars, last, sold>>

NextConc ==
  \/ \E p \in Procs : SaleBegin(p)
  \/ \E p \in Procs : SaleSelect(p)
  \/ \E p \in Procs : SaleSelectTimeout(p)
  \/ \E p \in Procs : SaleUpdate(p)
  \/ \E p \in Procs : SaleInsert(p)
  \/ \E p \in Procs : SaleCommit(p)
  \/ \E p \in Procs : SaleCommitTimeout(p)
  \/ \E p \in Procs : ToggleBegin(p)
  \/ \E p \in Procs : ToggleSelect(p)
  \/ \E p \in Procs : ToggleSelectTimeout(p)
  \/ \E p \in Procs : ToggleUpdate(p)
  \/ \E p \in Procs : ToggleUpdateTimeout(p)
  \/ \E p \in Procs : ToggleCommit(p)
  \/ \E p \in Procs : ToggleCommitTimeout(p)

SpecConc == Init /\ [][NextConc]_vars

\* =================================================================
\* Properties of Spec
\* =================================================================

\* C1: a sale reported successful has added exactly one sales row with the
\* requested product id and quantity and lowered that product's stock by
\* exactly the quantity, leaving everything else as it was; a sale that ends
\* any other way (bad quantity, unknown product, insufficient stock, a
\* storage failure at any call) leaves both tables unchanged.
SaleAtomicity ==
  [][last'.op = "process_sale" =>
       IF last'.result = "success"
       THEN /\ last'.pid \in DOMAIN products
            /\ last'.units > 0
            /\ Len(sales') = Len(sales) + 1
            /\ SubSeq(sales', 1, Len(sales)) = sales
            /\ sales'[Len(sales')].product_id = last'.pid
            /\ sales'[Len(sales')].quantity = last'.units
            /\ DOMAIN products' = DOMAIN products
            /\ products'[last'.pid].stock =
                 products[last'.pid].stock - last'.units
            /\ products' = [products EXCEPT ![last'.pid].stock =
                              products'[last'.pid].stock]
       ELSE sales' = sales /\ products' = products]_vars

SaleSucceeded ==
  /\ last.op = "process_sale" /\ last.result = "success"
  /\ \E i \in 1..Len(sales) :
       /\ sales[i].quantity = last.units
       /\ sales[i].product_id = last.pid
       /\ last.pid \in DOMAIN products
       /\ products[last.pid].stock = 0

\* C2: every product's stock is a non-negative integer in every reachable
\* state; a sale succeeds only for a quantity that the product's current
\* stock covers, and a sale that does not succeed leaves every stock as it
\* was.
StockNeverNegative ==
  /\ [](\A i \in DOMAIN products : products[i].stock \in Nat)
  /\ [][last'.op = "process_sale" =>
          /\ last'.result = "success" =>
               /\ last'.pid \in DOMAIN products
               /\ last'.units <= products[last'.pid].stock
          /\ last'.result # "success" =>
               /\ DOMAIN products' = DOMAIN products
               /\ \A i \in DOMAIN products :
                    products'[i].stock = products[i].stock]_vars

OversellRejected ==
  /\ last.op = "process_sale" /\ last.result = "insufficient"
  /\ last.units = 0
  /\ \E i \in DOMAIN products : products[i].stock = 0

\* C4: no request ends with an exception that leaves its handler.
NoUncaughtFault == last.result # "uncaught"

\* C5: a successful toggle flips is_watched between 0 and 1 and answers the
\* value now stored; a second successful toggle right after it restores the
\* value the first one found; a toggle of an id that is not in the table
\* changes nothing and, unless storage fails, answers not-found.
ToggleRoundTrip ==
  [][\A product_id \in Ids, fault \in ToggleFaults :
       (last'.op = "toggle_watchlist" /\ toggle_watchlist(product_id, fault)) =>
         /\ last'.result = "ok" =>
              /\ product_id \in DOMAIN products
              /\ {products[product_id].is_watched,
                  products'[product_id].is_watched} = {0, 1}
              /\ last'.new_status = products'[product_id].is_watched
              /\ products' = [products EXCEPT ![product_id].is_watched =
                                last'.new_status]
         /\ (/\ last'.result = "ok"
             /\ last.op = "toggle_watchlist" /\ last.result = "ok"
             /\ last.pid = product_id)
            => products'[product_id].is_watched = last.current_status
         /\ product_id \notin DOMAIN products =>
              /\ products' = products
              /\ last'.result # "ok"
              /\ fault = "none" => last'.result = "not_found"]_vars

ToggledBack ==
  /\ last.op = "toggle_watchlist" /\ last.result = "ok"
  /\ last.pid \in DOMAIN products
  /\ last.current_status = 1 /\ last.new_status = 0
  /\ products[last.pid].is_watched = 0

\* C6: no two products ever share a name; a create whose name is exactly
\* (case-sensitively) the name of an existing product adds no row and, when
\* it reaches the INSERT, answers the duplicate-name error; a successful
\* create adds exactly one row, with the given name and is_watched = 0.
NamesUnique ==
  /\ [](\A i, j \in DOMAIN products :
          i # j => products[i].name # products[j].name)
  /\ [][last'.op = "add_product" =>
          /\ last'.result = "added" =>
               /\ \A i \in DOMAIN products : products[i].name # last'.name
               /\ \E id \in DOMAIN products' \ DOMAIN products :
                    /\ DOMAIN products' = DOMAIN products \cup {id}
                    /\ products'[id].name = last'.name
                    /\ products'[id].is_watched = 0
                    /\ \A i \in DOMAIN products : products'[i] = products[i]
          /\ last'.result # "added" => products' = products
          /\ \A n \in NameInputs :
               (/\ n.present
                /\ \E i \in DOMAIN products : products[i].name = n.text
                /\ add_product("POST", n, BaseForm.price, BaseForm.stock,
                               BaseForm.threshold, BaseForm.online,
                               BaseForm.file, "none"))
               => last'.result = "duplicate" /\ last'.name = n.text]_vars

DuplicateRefused ==
  /\ last.op = "add_product" /\ last.result = "duplicate"
  /\ last.name = "Shampoo"
  /\ \E i, j \in DOMAIN products :
       products[i].name = "Shampoo" /\ products[j].name = "shampoo"

Recorded ==
  {i \in 1..Len(sales) :
     sales[i].product_id \in DOMAIN products /\ sales[i].id \notin orphaned}

\* C8: the metrics page's total revenue is the sum, over the sales rows, of
\* quantity times the current price of the product the sale was recorded
\* against, and its order count is the number of sales rows.
RevenueOfRecordedProducts ==
  /\ total_revenue =
       SumOver(Recorded,
               [i \in Recorded |->
                  sales[i].quantity * products[sales[i].product_id].price])
  /\ total_orders = Len(sales)

\* C10: a sales row that joins to a product was recorded against that very
\* product: no product holds an id that a sales row of a deleted product
\* references.
NoSaleJoinsLaterProduct ==
  \A i \in 1..Len(sales) :
    sales[i].product_id \in DOMAIN products => sales[i].id \notin orphaned

\* =================================================================
\* Properties of SpecConc
\* =================================================================
SoldRows(i) == {k \in 1..Len(sales) : sales[k].product_id = i}

\* C3: however the statements of concurrent sales interleave, every
\* product's stock is its initial stock minus the quantities of the sales
\* reported successful, each of which has its row; and a sale commits only
\* while the stock it read is still the stock stored (it ran after the
\* other's commit, or the other one aborted without writing).
NoLostUpdate ==
  /\ [](\A i \in DOMAIN products :
          /\ products[i].stock = SeedProducts[i].stock - sold[i]
          /\ sold[i] = SumOver(SoldRows(i),
                               [k \in SoldRows(i) |-> sales[k].quantity]))
  /\ [][\A p \in Procs :
          (/\ pc[p] = "sale_commit" /\ pc'[p] = "idle"
           /\ resp'[p].result = "success")
          => /\ cur[p] = products[req[p].pid].stock
             /\ products'[req[p].pid].stock =
                  products[req[p].pid].stock - req[p].quantity]_vars

OneSaleAborted ==
  /\ \A p \in Procs : pc[p] = "idle" /\ resp[p].op = "process_sale"
  /\ resp[1].result = "success" /\ resp[2].result = "error"
  /\ Len(sales) = 1
  /\ products[resp[1].pid].stock =
       SeedProducts[resp[1].pid].stock - resp[1].units

\* C9: each successful toggle flips the stored flag: the new_status it
\* returns, which it stores, is the negation of the value stored just
\* before its write.
ToggleFlipsStoredValue ==
  [][\A p \in Procs :
       (/\ pc[p] = "toggle_commit" /\ pc'[p] = "idle"
        /\ resp'[p].result = "ok")
       => /\ resp'[p].new_status = products'[req[p].pid].is_watched
          /\ resp'[p].new_status # products[req[p].pid].is_watched]_vars

====
